---- MODULE Spec2Model ----
(***************************************************************************)
(* A model of the email task extraction agent: the Relevance Filter        *)
(* (is_promotional_email), the Response Parser (parse_task_analysis), and  *)
(* the orchestrator (extract_email_tasks followed by main's deduplication  *)
(* loop) over a task store that outlives a run.                            *)
(*                                                                         *)
(* Texts are TLA+ strings handled character by character (Len, SubSeq and  *)
(* \o work on strings in TLC), so that the cleaning steps of the code are  *)
(* computed as the code computes them.                                     *)
(***************************************************************************)
EXTENDS Integers, Sequences, FiniteSets, TLC

VARIABLES
    \* ---- Relevance Filter, one call (specification SpecFilter)
    f_pc,          \* "idle" | "ready" | "returned"
    f_oracle,      \* [fails, content]: what ollama.chat does on this call
    f_result,      \* the value is_promotional_email returned
    \* ---- Response Parser, one call (specification SpecParser)
    p_pc,          \* "idle" | "ready" | "returned"
    p_input,       \* analysis_response
    p_result,      \* [raised, tasks]: how parse_task_analysis ended
    \* ---- the task store (TaskDatabase), which outlives a run
    has_email_exists,          \* hasattr(db, 'email_exists')
    has_mark_email_processed,  \* hasattr(db, 'mark_email_processed')
    processed,     \* the message ids that carry a processed-marker
    db_tasks,      \* the stored TaskRecords (created_at left out)
    \* ---- one run: main() awaiting extract_email_tasks(), then its loop
    run,           \* the number of this run
    pc,            \* where the run is
    messages,      \* results.get('messages', []): the ids of the batch
    idx,           \* the position of msg in messages
    emails_idx,    \* the position of formatted_email in the placeholder emails
    all_tasks,     \* all_tasks; each candidate with the mail it came from
    result,        \* what extract_email_tasks returned, until main has read it
    tasks,         \* main's tasks = result["tasks"]
    task_i,        \* main's loop counter i over tasks
    similar_tasks, \* the last answer of db.find_similar_tasks
    new_tasks,     \* positions in tasks of the candidates recorded as new
    duplicate_tasks, \* positions in tasks of those recorded as duplicate
    error,         \* the exception that left main, "" when none
    trace          \* history of the run, read by the properties only

fvars == <<f_pc, f_oracle, f_result>>
pvars == <<p_pc, p_input, p_result>>
store == <<has_email_exists, has_mark_email_processed, processed, db_tasks>>
extract_vars == <<messages, idx, emails_idx, all_tasks, result>>
main_vars == <<tasks, task_i, similar_tasks, new_tasks, duplicate_tasks, error>>
rvars == <<store, run, pc, extract_vars, main_vars, trace>>
vars == <<fvars, pvars, rvars>>

(***************************************************************************)
(* Python string operations                                                *)
(***************************************************************************)
UpperChars == "ABCDEFGHIJKLMNOPQRSTUVWXYZ"
LowerChars == "abcdefghijklmnopqrstuvwxyz"

\* str.strip() with no argument removes these (the ASCII whitespace)
WhitespaceChars == {" ", "\n", "\r", "\t"}

CharAt(s, i) == SubSeq(s, i, i)

\* a variant of the slice that keeps the whole string
Uncut(s, n) == s

Slice(s, n) == IF Len(s) <= n THEN s ELSE SubSeq(s, 1, n)

StartsWith(s, pre) == Len(s) >= Len(pre) /\ SubSeq(s, 1, Len(pre)) = pre

\* the least position >= from where pat occurs in s, 0 when there is none
Find(s, pat, from) ==
    LET hits == {i \in from..(Len(s) - Len(pat) + 1) :
                    SubSeq(s, i, i + Len(pat) - 1) = pat}
    IN IF hits = {} THEN 0 ELSE CHOOSE i \in hits : \A k \in hits : i <= k

Contains(s, pat) == Find(s, pat, 1) # 0

\* the character maps of str.upper() and str.lower() on ASCII letters
ToUpper == [c \in {CharAt(LowerChars, k) : k \in 1..26} |->
               CharAt(UpperChars, Find(LowerChars, c, 1))]
ToLower == [c \in {CharAt(UpperChars, k) : k \in 1..26} |->
               CharAt(LowerChars, Find(UpperChars, c, 1))]

RECURSIVE MapChars(_, _)
MapChars(s, map) ==
    IF s = "" THEN ""
    ELSE LET c == CharAt(s, 1)
         IN (IF c \in DOMAIN map THEN map[c] ELSE c) \o MapChars(Tail(s), map)

Upper(s) == MapChars(s, ToUpper)
Lower(s) == MapChars(s, ToLower)

RECURSIVE LStrip(_)
LStrip(s) ==
    IF s # "" /\ CharAt(s, 1) \in WhitespaceChars THEN LStrip(Tail(s)) ELSE s

RECURSIVE RStrip(_)
RStrip(s) ==
    IF s # "" /\ CharAt(s, Len(s)) \in WhitespaceChars
    THEN RStrip(SubSeq(s, 1, Len(s) - 1)) ELSE s

Strip(s) == RStrip(LStrip(s))

\* str.replace(old, ""): every non-overlapping occurrence, left to right
RECURSIVE Remove(_, _)
Remove(s, old) ==
    LET i == Find(s, old, 1)
    IN IF i = 0 THEN s
       ELSE SubSeq(s, 1, i - 1) \o Remove(SubSeq(s, i + Len(old), Len(s)), old)

\* re.sub(open + '.*?' + close, '', s, flags=re.DOTALL): from each leftmost
\* open to the nearest close after it
RECURSIVE RemoveSpans(_, _, _)
RemoveSpans(s, open, close) ==
    LET i == Find(s, open, 1)
        j == IF i = 0 THEN 0 ELSE Find(s, close, i + Len(open))
    IN IF i = 0 THEN s
       ELSE IF j = 0
            \* no close after this open: the regex retries at later positions
            THEN SubSeq(s, 1, i) \o RemoveSpans(SubSeq(s, i + 1, Len(s)), open, close)
            ELSE SubSeq(s, 1, i - 1)
                 \o RemoveSpans(SubSeq(s, j + Len(close), Len(s)), open, close)

(***************************************************************************)
(* Relevance Filter: is_promotional_email                                  *)
(***************************************************************************)
\* cleaned, as lines 31-34 compute it from raw_output
promo_cleaned(raw_output) ==
    LET no_think == RemoveSpans(raw_output, "<think>", "</think>")
        cleaned == Upper(Strip(RemoveSpans(no_think, "<", ">")))
    IN Remove(Remove(Remove(cleaned, "\n"), "\r"), " ")

\* a variant of the decision that excludes on an ambiguous answer
promo_decision_ambiguous_true(cleaned) ==
    LET has_yes == Contains(cleaned, "YES")
        has_no == Contains(cleaned, "NO")
    IN IF has_yes /\ ~has_no THEN TRUE
       ELSE IF has_no /\ ~has_yes THEN FALSE
       ELSE TRUE

\* the decision of lines 36-44
promo_decision(cleaned) ==
    LET has_yes == Contains(cleaned, "YES")
        has_no == Contains(cleaned, "NO")
    IN IF has_yes /\ ~has_no THEN TRUE
       ELSE IF has_no /\ ~has_yes THEN FALSE
       ELSE FALSE

\* oracle: [fails |-> ollama.chat raised, content |-> response text]
is_promotional_email(oracle) ==
    IF oracle.fails THEN FALSE   \* except Exception: return False
    ELSE promo_decision(promo_cleaned(oracle.content))

(***************************************************************************)
(* JSON values, as json.loads builds them.  Every value is a record of the *)
(* same shape: ty is its Python type, s the text of a str or of a number,  *)
(* items the elements of a list or the (key, value) pairs of a dict in the *)
(* order of the text.                                                      *)
(***************************************************************************)
JStr(s) == [ty |-> "str", s |-> s, items |-> <<>>]
JNum(s) == [ty |-> "num", s |-> s, items |-> <<>>]
JNull == [ty |-> "null", s |-> "", items |-> <<>>]
JList(items) == [ty |-> "list", s |-> "", items |-> items]
JPair(k, v) == [ty |-> "pair", s |-> k, items |-> <<v>>]
JDict(pairs) == [ty |-> "dict", s |-> "", items |-> pairs]

\* the JSON text of a value (no string of the model needs an escape)
RECURSIVE Dump(_)
RECURSIVE DumpItems(_, _)
Dump(v) ==
    CASE v.ty = "str" -> "\"" \o v.s \o "\""
      [] v.ty = "num" -> v.s
      [] v.ty = "null" -> "null"
      [] v.ty = "list" -> "[" \o DumpItems(v.items, 1) \o "]"
      [] v.ty = "dict" -> "{" \o DumpItems(v.items, 1) \o "}"
      [] v.ty = "pair" -> "\"" \o v.s \o "\": " \o Dump(v.items[1])
DumpItems(items, i) ==
    IF i > Len(items) THEN ""
    ELSE Dump(items[i]) \o (IF i < Len(items) THEN ", " ELSE "")
         \o DumpItems(items, i + 1)

\* dict operations
HasKey(d, k) == \E i \in 1..Len(d.items) : d.items[i].s = k
Get(d, k, default) ==
    IF HasKey(d, k)
    THEN d.items[CHOOSE i \in 1..Len(d.items) : d.items[i].s = k].items[1]
    ELSE default

\* bool(v)
Truthy(v) ==
    CASE v.ty = "str" -> v.s # ""
      [] v.ty = "num" -> v.s # "0"
      [] v.ty = "null" -> FALSE
      [] OTHER -> v.items # <<>>

\* str(v), for the values a sender or a reason takes in the model
PyStr(v) ==
    CASE v.ty = "str" -> v.s
      [] v.ty = "num" -> v.s
      [] v.ty = "null" -> "None"
      [] OTHER -> Dump(v)

\* a or b or c or default, over dict.get (None when the key is absent)
FirstTruthy(d, keys, default) ==
    LET hits == {i \in 1..Len(keys) : Truthy(Get(d, keys[i], JNull))}
    IN IF hits = {} THEN JStr(default)
       ELSE Get(d, keys[CHOOSE i \in hits : \A k \in hits : i <= k], JNull)

(***************************************************************************)
(* Response Parser: parse_task_analysis                                    *)
(***************************************************************************)
TitleCap == 50
SenderCap == 30
DeadlineCap == 20
ReasonCap == 100
MinTitle == 3

automated_patterns ==
    <<"noreply", "no-reply", "notification", "mailer", "robot", "bot",
      "do-not-reply", "system", "admin", "support", "update", "service", "info@",
      "donotreply", "auto", "automated", "alerts", "reminder", "news", "digest",
      "newsletter", "bounce", "daemon", "postmaster">>

\* the alternatives of the regular expression of line 207
automated_domains ==
    <<"noreply", "no-reply", "notification", "notifications", "mailer", "robot",
      "bot", "do-not-reply", "system", "admin", "support", "update", "service",
      "info", "donotreply", "auto", "automated", "alerts", "reminder", "news",
      "digest", "newsletter", "bounce", "daemon", "postmaster">>

\* re.match(r"^[^@]+@(...)\.", sender_lower)
automated_address(sender_lower) ==
    LET at == Find(sender_lower, "@", 1)
        rest == SubSeq(sender_lower, at + 1, Len(sender_lower))
    IN at >= 2
       /\ \E k \in 1..Len(automated_domains) :
             StartsWith(rest, automated_domains[k] \o ".")

\* The backquote cannot be written in a string of this language: "~" stands
\* for it in every text of the model, so Fence is the Markdown code fence.
Fence == "~~~"

\* re.sub(r'(fence)(?:json)?', '', s)
RECURSIVE RemoveFences(_)
RemoveFences(s) ==
    LET i == Find(s, Fence, 1)
        after == IF i = 0 THEN "" ELSE SubSeq(s, i + 3, Len(s))
    IN IF i = 0 THEN s
       ELSE SubSeq(s, 1, i - 1)
            \o RemoveFences(IF StartsWith(after, "json")
                            THEN SubSeq(after, 5, Len(after)) ELSE after)

\* cleaned_response, lines 158-161
parse_cleaned(analysis_response) ==
    LET no_think == RemoveSpans(analysis_response, "<think>", "</think>")
    IN Strip(RemoveFences(Strip(Remove(no_think, "</think>"))))

\* One entry of the list, lines 198-221: [exc, skip, task].  exc is the
\* exception the entry raises ("" when none), skip says no task is appended.
NoTask == [title |-> "", from |-> "", priority |-> "", deadline |-> "", reason |-> ""]

clean_entry(task) ==
    IF ~(task.ty = "dict" /\ HasKey(task, "title"))
    THEN [exc |-> "", skip |-> TRUE, task |-> NoTask]
    ELSE
    LET sender == FirstTruthy(task, <<"from", "sender", "email">>, "Unknown")
        reason == FirstTruthy(task, <<"reason", "why", "description">>,
                              "No reason provided")
        sender_lower == Lower(Strip(PyStr(sender)))
        title == Get(task, "title", JStr(""))
        priority == Get(task, "priority", JStr("MEDIUM"))
        deadline == Get(task, "deadline", JStr("None"))
    IN IF \E k \in 1..Len(automated_patterns) :
             Contains(sender_lower, automated_patterns[k])
       THEN [exc |-> "", skip |-> TRUE, task |-> NoTask]
       ELSE IF automated_address(sender_lower)
       THEN [exc |-> "", skip |-> TRUE, task |-> NoTask]
       \* .strip() of a value that is no str
       ELSE IF title.ty # "str" \/ priority.ty # "str" \/ deadline.ty # "str"
       THEN [exc |-> "AttributeError", skip |-> TRUE, task |-> NoTask]
       ELSE
       LET clean_task ==
               [title |-> Slice(Strip(title.s), TitleCap),
                from |-> Slice(Strip(PyStr(sender)), SenderCap),
                priority |-> Upper(Strip(priority.s)),
                deadline |-> Slice(Strip(deadline.s), DeadlineCap),
                reason |-> Slice(Strip(PyStr(reason)), ReasonCap)]
       IN IF clean_task.title # "" /\ Len(clean_task.title) > MinTitle
          THEN [exc |-> "", skip |-> FALSE,
                task |-> IF clean_task.priority \notin {"HIGH", "MEDIUM", "LOW"}
                         THEN [clean_task EXCEPT !.priority = "MEDIUM"]
                         ELSE clean_task]
          ELSE [exc |-> "", skip |-> TRUE, task |-> NoTask]

\* the loop of line 197 from entry i on: [exc, tasks]; an exception ends it
RECURSIVE clean_entries(_, _, _)
clean_entries(entries, i, valid_tasks) ==
    IF i > Len(entries) THEN [exc |-> "", tasks |-> valid_tasks]
    ELSE LET e == clean_entry(entries[i])
         IN IF e.exc # "" THEN [exc |-> e.exc, tasks |-> valid_tasks]
            ELSE clean_entries(entries, i + 1,
                               IF e.skip THEN valid_tasks
                               ELSE Append(valid_tasks, e.task))

\* what "for task in tasks" iterates over; [exc, elems]
iterate(raw) ==
    CASE raw.ty = "list" -> [exc |-> "", elems |-> raw.items]
         \* a dict yields its keys, a str its characters: none is a dict
      [] raw.ty = "dict" ->
            [exc |-> "", elems |-> [i \in 1..Len(raw.items) |-> JStr(raw.items[i].s)]]
      [] raw.ty = "str" ->
            [exc |-> "", elems |-> [i \in 1..Len(raw.s) |-> JStr(CharAt(raw.s, i))]]
      [] OTHER -> [exc |-> "TypeError", elems |-> <<>>]


(***************************************************************************)
(* The oracle texts of the model                                           *)
(***************************************************************************)
MaxEntries == 2     \* entries in a JSON array the oracle returns
MaxParts == 3       \* fragments in an answer to the yes/no prompt

RECURSIVE Rep(_, _)
Rep(c, n) == IF n = 0 THEN "" ELSE c \o Rep(c, n - 1)

e_review ==
    JDict(<<JPair("title", JStr("Review report")), JPair("from", JStr("Alice")),
            JPair("priority", JStr("high")), JPair("deadline", JStr("Friday")),
            JPair("reason", JStr("Asked in the mail"))>>)
e_call == JDict(<<JPair("title", JStr("Call"))>>)
e_short == JDict(<<JPair("title", JStr(" abc ")), JPair("from", JStr("Bob"))>>)
e_numtitle == JDict(<<JPair("title", JNum("5")), JPair("from", JStr("Bob"))>>)
e_nullprio ==
    JDict(<<JPair("title", JStr("Pay invoice")), JPair("priority", JNull)>>)
e_auto ==
    JDict(<<JPair("title", JStr("Reset password")),
            JPair("from", JStr("NoReply@shop.com"))>>)
e_domain ==
    JDict(<<JPair("title", JStr("Read the offer")), JPair("from", JStr("")),
            JPair("email", JStr("bob@info.org"))>>)
e_long ==
    JDict(<<JPair("title", JStr(Rep("t", TitleCap - 1) \o "  tail")),
            JPair("sender", JStr(Rep("s", SenderCap + 5))),
            JPair("priority", JStr(" urgent ")),
            JPair("deadline", JStr(Rep("d", DeadlineCap + 5))),
            JPair("why", JStr(Rep("w", ReasonCap + 5)))>>)
e_notitle == JDict(<<JPair("from", JStr("Bob"))>>)

ParserEntries ==
    {e_review, e_call, e_short, e_numtitle, e_nullprio, e_auto, e_domain,
     e_long, e_notitle, JStr("note"), JNum("7")}

RECURSIVE SeqsUpTo(_, _)
SeqsUpTo(S, n) ==
    IF n = 0 THEN {<<>>}
    ELSE LET shorter == SeqsUpTo(S, n - 1)
         IN shorter \cup {Append(q, x) : q \in shorter, x \in S}

ParserLists == {JList(q) : q \in SeqsUpTo(ParserEntries, MaxEntries)}

ParserValues ==
    ParserLists
    \cup {JDict(<<JPair("tasks", JList(<<e_review, e_call>>))>>),
          JDict(<<JPair("data", JList(<<e_call>>))>>),
          JDict(<<JPair("items", JList(<<e_numtitle>>))>>),
          JDict(<<JPair("tasks", JNum("3"))>>),
          JDict(<<JPair("data", JStr("none"))>>),
          JDict(<<JPair("items", e_review)>>),
          e_review, e_notitle, e_numtitle,
          JNum("42"), JStr("no tasks"), JNull}


\* the tasks the oracle finds in the mails of a run
t_send ==
    JDict(<<JPair("title", JStr("Send Report")), JPair("from", JStr("Alice")),
            JPair("priority", JStr("HIGH")), JPair("deadline", JStr("Friday"))>>)
\* the same title and deadline up to case and blanks, another priority
t_send_low ==
    JDict(<<JPair("title", JStr("send report ")), JPair("from", JStr("Alice")),
            JPair("priority", JStr("low")), JPair("deadline", JStr(" Friday"))>>)

RunValues ==
    {JList(<<>>), JList(<<t_send>>), JList(<<t_send_low>>), JList(<<e_numtitle>>)}

JsonValues == ParserValues \cup RunValues

\* json.loads over the texts of the model: [ok, value]; ok is FALSE for
\* json.JSONDecodeError.  A text is valid JSON here exactly when it is the
\* JSON text of one of JsonValues.
JsonTable == {<<Dump(v), v>> : v \in JsonValues}

json_loads(text) ==
    LET hits == {e \in JsonTable : e[1] = text}
    IN IF hits = {} THEN [ok |-> FALSE, value |-> JNull]
       ELSE [ok |-> TRUE, value |-> (CHOOSE e \in hits : TRUE)[2]]

\* a variant with the clause of line 224 only: any other exception leaves
except_only_json_error(exc) ==
    [raised |-> exc # "JSONDecodeError", tasks |-> <<>>]

\* the except clauses of lines 224-229: both return []
except_clauses(exc) == [raised |-> FALSE, tasks |-> <<>>]

\* lines 171-186: the list of raw entries; is_return says line 186 returned []
unwrap(response_data) ==
    CASE response_data.ty = "list" -> [is_return |-> FALSE, tasks |-> response_data]
      [] response_data.ty = "dict" ->
            [is_return |-> FALSE,
             tasks |-> IF HasKey(response_data, "tasks")
                       THEN Get(response_data, "tasks", JNull)
                       ELSE IF HasKey(response_data, "data")
                       THEN Get(response_data, "data", JNull)
                       ELSE IF HasKey(response_data, "items")
                       THEN Get(response_data, "items", JNull)
                       ELSE JList(<<response_data>>)]
      [] OTHER -> [is_return |-> TRUE, tasks |-> JNull]

\* parse_task_analysis: [raised, tasks]
parse_task_analysis(analysis_response) ==
    IF analysis_response = "" \/ StartsWith(analysis_response, "Error:")
    THEN [raised |-> FALSE, tasks |-> <<>>]
    ELSE
    LET loaded == json_loads(parse_cleaned(analysis_response))
        u == unwrap(loaded.value)
        it == iterate(u.tasks)
        r == clean_entries(it.elems, 1, <<>>)
    IN IF ~loaded.ok THEN except_clauses("JSONDecodeError")
       ELSE IF u.is_return THEN [raised |-> FALSE, tasks |-> <<>>]
       ELSE IF it.exc # "" THEN except_clauses(it.exc)
       ELSE IF r.exc # "" THEN except_clauses(r.exc)
       ELSE [raised |-> FALSE, tasks |-> r.tasks]

\* a variant without the try of lines 139-148: a failing call raises
analyze_without_except(oracle) ==
    [raised |-> oracle.fails, text |-> IF oracle.fails THEN "" ELSE oracle.content]

\* analyze_emails_for_tasks: [raised, text]; the oracle's text, or the
\* sentinel built from the exception when ollama.chat raises
analyze_emails_for_tasks(oracle) ==
    [raised |-> FALSE,
     text |-> IF oracle.fails THEN "Error: " \o oracle.content ELSE oracle.content]

(***************************************************************************)
(* One call of the Relevance Filter                                        *)
(***************************************************************************)
FilterFragments ==
    {"", "YES", "NO", "no", " ", "\n", "\t", "<think>", "</think>", "<b>", "N", "O"}

RECURSIVE Concats(_, _)
Concats(S, n) ==
    IF n = 0 THEN {""} ELSE {a \o b : a \in S, b \in Concats(S, n - 1)}

FilterAnswers == Concats(FilterFragments, MaxParts)

FilterOracles ==
    {[fails |-> FALSE, content |-> c] : c \in FilterAnswers}
    \cup {[fails |-> TRUE, content |-> "timed out"]}

FilterIdle ==
    /\ f_pc = "idle"
    /\ f_oracle = [fails |-> FALSE, content |-> ""]
    /\ f_result = FALSE

FilterInit ==
    /\ f_pc = "ready"
    /\ f_oracle \in FilterOracles
    /\ f_result = FALSE

FilterCall ==
    /\ f_pc = "ready"
    /\ f_result' = is_promotional_email(f_oracle)
    /\ f_pc' = "returned"
    /\ UNCHANGED <<f_oracle, pvars, rvars>>

(***************************************************************************)
(* One call of the Response Parser                                         *)
(***************************************************************************)
ParserPrefixes == {"", "<think>Let me read the mail.</think>\n", Fence \o "json\n", "</think>"}
ParserSuffixes == {"", "\n" \o Fence, " Hope this helps!"}

ParserInputs ==
    {pre \o body \o post :
        pre \in ParserPrefixes, body \in {Dump(v) : v \in ParserValues},
        post \in ParserSuffixes}
    \cup {"", "Error: connection refused", "Error:", "Sure, here are the tasks",
          "[{\"title\": \"Review", "<think>[]", "[] []"}

ParserIdle ==
    /\ p_pc = "idle"
    /\ p_input = ""
    /\ p_result = [raised |-> FALSE, tasks |-> <<>>]

ParserInit ==
    /\ p_pc = "ready"
    /\ p_input \in ParserInputs
    /\ p_result = [raised |-> FALSE, tasks |-> <<>>]

ParserCall ==
    /\ p_pc = "ready"
    /\ p_result' = parse_task_analysis(p_input)
    /\ p_pc' = "returned"
    /\ UNCHANGED <<p_input, fvars, rvars>>

(***************************************************************************)
(* The Deduplicator of main, lines 224-246                                 *)
(***************************************************************************)
DistanceThreshold == 5    \* 0.05, distances counted in hundredths

\* {"HIGH": 1, "MEDIUM": 2, "LOW": 3}.get(task['priority'], 2)
priority_of(priority) ==
    CASE priority = "HIGH" -> 1
      [] priority = "MEDIUM" -> 2
      [] priority = "LOW" -> 3
      [] OTHER -> 2

normalized_title_of(task) == Lower(Strip(task.title))
task_deadline_of(task) == Strip(task.deadline)

\* TaskRecord(name=task['title'], priority=task_priority, due_date=task_deadline)
TaskRecord(task) ==
    [name |-> task.title, priority |-> priority_of(task.priority),
     due_date |-> task_deadline_of(task)]

\* a variant of the condition that accepts a distance of exactly 0.05
matches_at_threshold(sim_task, task) ==
    /\ sim_task.similarity_distance # <<>>
    /\ sim_task.similarity_distance[1] <= DistanceThreshold
    /\ Lower(Strip(sim_task.name)) = normalized_title_of(task)
    /\ sim_task.priority = priority_of(task.priority)
    /\ Strip(sim_task.due_date) = task_deadline_of(task)

\* the condition of lines 236-241 on one sim_task; similarity_distance is
\* <<>> for None and <<d>> for the distance d
matches(sim_task, task) ==
    /\ sim_task.similarity_distance # <<>>
    /\ sim_task.similarity_distance[1] < DistanceThreshold
    /\ Lower(Strip(sim_task.name)) = normalized_title_of(task)
    /\ sim_task.priority = priority_of(task.priority)
    /\ Strip(sim_task.due_date) = task_deadline_of(task)

\* is_duplicate after the loop of lines 230-244
is_duplicate(similar, task) ==
    \E n \in 1..Len(similar) : matches(similar[n], task)

(***************************************************************************)
(* The run: extract_email_tasks, then the loop of main                     *)
(***************************************************************************)
MaxBatch == 3       \* messages the source lists for a run
MaxRuns == 2        \* runs over the same task store
MaxMatches == 2     \* matches find_similar_tasks returns
MaxTasks == 2       \* candidates the oracle finds in the mails of one run
PlaceholderCount == 3   \* the placeholder emails of lines 164-168

\* what the oracle answers to the yes/no prompt during a run
RunFilterOracles ==
    {[fails |-> FALSE, content |-> "<think>An offer.</think>\nYes"],
     [fails |-> FALSE, content |-> "NO"],
     [fails |-> FALSE, content |-> "Yes or no? Not sure."],
     [fails |-> TRUE, content |-> "timed out"]}

\* what the oracle answers to the extraction prompt during a run
RunExtractOracles ==
    {[fails |-> FALSE, content |-> "[]"],
     [fails |-> FALSE, content |-> Dump(JList(<<t_send>>))],
     [fails |-> FALSE,
      content |-> "<think>One task.</think>" \o Fence \o "json\n"
                  \o Dump(JList(<<t_send_low>>)) \o "\n" \o Fence],
     [fails |-> FALSE, content |-> Dump(JList(<<e_numtitle>>))],
     [fails |-> FALSE, content |-> "I found no tasks."],
     [fails |-> TRUE, content |-> "timed out"]}

Distances == {<<>>, <<DistanceThreshold - 1>>, <<DistanceThreshold>>}

\* the relevance filter's answer to each of them
RunFilterCalls ==
    {[oracle |-> o, promo_result |-> is_promotional_email(o)] : o \in RunFilterOracles}

\* lines 153-155 (and 174-176): ai_response, then tasks
extract_call(oracle) ==
    LET ai_response == analyze_emails_for_tasks(oracle)
    IN IF ai_response.raised THEN [raised |-> TRUE, tasks |-> <<>>]
       ELSE parse_task_analysis(ai_response.text)

\* the extractor call failed (sentinel of line 147) or its text is no JSON
extract_failed(oracle) ==
    LET ai_response == analyze_emails_for_tasks(oracle)
    IN \/ StartsWith(ai_response.text, "Error:")
       \/ ~json_loads(parse_cleaned(ai_response.text)).ok

RunExtractCalls ==
    {[oracle |-> o, parsed |-> extract_call(o), failed |-> extract_failed(o)] :
        o \in RunExtractOracles}

\* the calls that keep the candidates of the run within MaxTasks
ExtractCallsNow ==
    {c \in RunExtractCalls : Len(all_tasks) + Len(c.parsed.tasks) <= MaxTasks}

\* db.email_exists(msg_id)
email_exists(msg_id) == msg_id \in processed

\* db.find_similar_tasks(normalized_title): stored tasks, each with the
\* distance the store computed for it; the metric is the store's
SimilarAnswers ==
    LET one == {[name |-> t.name, priority |-> t.priority, due_date |-> t.due_date,
                 similarity_distance |-> d] : t \in db_tasks, d \in Distances}
    IN {a \in SeqsUpTo(one, MaxMatches) :
          \* a stored task is returned once
          \A m, n \in 1..Len(a) :
             m # n => <<a[m].name, a[m].priority, a[m].due_date>>
                      # <<a[n].name, a[n].priority, a[n].due_date>>}

EmptyTrace ==
    [skipped |-> {},          \* messages skipped as already processed
     promo_calls |-> {},      \* messages is_promotional_email was called on
     promo_kept |-> {},       \* those it returned False for
     extract_calls |-> {},    \* mails analyze_emails_for_tasks was called on
     raised |-> {},           \* messages whose processing raised
     marker_writes |-> {},    \* messages mark_email_processed was called for
     finished |-> {},         \* messages whose loop iteration ran to its end
     primary_tasks |-> <<>>,  \* every candidate extracted from a message
     add_calls |-> <<>>,      \* the candidates add_task was called for
     extract_failed |-> {},   \* messages whose extraction gave the sentinel
                              \* or a text that is no JSON, of this and of
                              \* earlier runs, kept when the message is
                              \* the current one or carries a marker
     failed_write |-> ""]     \* the store write that failed

NoResult == [returned |-> FALSE, tasks |-> <<>>, summary |-> ""]

RunStart ==
    /\ pc = "start"
    /\ messages = <<>>
    /\ idx = 0
    /\ emails_idx = 0
    /\ all_tasks = <<>>
    /\ result = NoResult
    /\ tasks = <<>>
    /\ task_i = 0
    /\ similar_tasks = <<>>
    /\ new_tasks = <<>>
    /\ duplicate_tasks = <<>>
    /\ error = ""
    /\ trace = EmptyTrace

RunInit ==
    /\ has_email_exists \in BOOLEAN
    /\ has_mark_email_processed \in BOOLEAN
    /\ processed = {}
    /\ db_tasks = {}
    /\ run = 1
    /\ RunStart

\* the ids of the messages and of the placeholder emails
MsgIds == 1..MaxBatch
Placeholder(n) == 0 - n
\* the source of a candidate found in a placeholder email
PlaceholderSrc == Placeholder(PlaceholderCount)
msg_id == messages[idx]

Tagged(found, src) == [n \in 1..Len(found) |-> [task |-> found[n], src |-> src]]

\* the except clause of line 162: fall back to the placeholder emails
Fallback ==
    /\ pc' = "fallback"
    /\ all_tasks' = <<>>
    /\ emails_idx' = 1

\* lines 72-80: the source lists the batch, or is unavailable
ListMessages ==
    /\ pc = "start"
    /\ \E n \in 0..MaxBatch :
          /\ messages' = [m \in 1..n |-> m]
          /\ idx' = 1
          /\ pc' = "loop"
    /\ UNCHANGED <<fvars, pvars, store, run, emails_idx, all_tasks, result, main_vars, trace>>

SourceUnavailable ==
    /\ pc = "start"
    /\ Fallback
    /\ UNCHANGED <<fvars, pvars, store, run, messages, idx, result, main_vars, trace>>

\* a skip that leaves the loop (break) where the code goes on (continue)
SkipProcessedAndStop ==
    /\ pc = "loop" /\ idx <= Len(messages)
    /\ has_email_exists /\ email_exists(msg_id)
    /\ idx' = Len(messages) + 1
    /\ trace' = [trace EXCEPT !.skipped = @ \cup {msg_id}]
    /\ UNCHANGED <<fvars, pvars, store, run, pc, messages, emails_idx, all_tasks, result, main_vars>>

\* lines 84-87: the message is already processed
SkipProcessed ==
    /\ pc = "loop" /\ idx <= Len(messages)
    /\ has_email_exists /\ email_exists(msg_id)
    /\ idx' = idx + 1
    /\ trace' = [trace EXCEPT !.skipped = @ \cup {msg_id}]
    /\ UNCHANGED <<fvars, pvars, store, run, pc, messages, emails_idx, all_tasks, result, main_vars>>

\* lines 88-140: fetching or normalizing the message raises
MessageRaises ==
    /\ pc = "loop" /\ idx <= Len(messages)
    /\ ~(has_email_exists /\ email_exists(msg_id))
    /\ Fallback
    /\ trace' = [trace EXCEPT !.raised = @ \cup {msg_id}]
    /\ UNCHANGED <<fvars, pvars, store, run, messages, idx, result, main_vars>>

\* lines 88-151: the message is fetched and normalized, and the filter asked
CheckPromotional ==
    /\ pc = "loop" /\ idx <= Len(messages)
    /\ ~(has_email_exists /\ email_exists(msg_id))
    /\ \E call \in RunFilterCalls :
          LET promo_result == call.promo_result
          IN /\ trace' = [trace EXCEPT
                            !.promo_calls = @ \cup {msg_id},
                            !.promo_kept = IF promo_result THEN @ ELSE @ \cup {msg_id},
                            !.finished = IF promo_result THEN @ \cup {msg_id} ELSE @]
             /\ IF promo_result
                THEN idx' = idx + 1 /\ pc' = "loop"   \* continue
                ELSE idx' = idx /\ pc' = "extract"
    /\ UNCHANGED <<fvars, pvars, store, run, messages, emails_idx, all_tasks, result, main_vars>>

\* lines 153-156
ExtractTasks ==
    /\ pc = "extract"
    /\ \E call \in ExtractCallsNow :
          LET parsed == call.parsed
          IN IF parsed.raised
             THEN /\ Fallback
                  /\ trace' = [trace EXCEPT !.extract_calls = @ \cup {msg_id},
                                            !.raised = @ \cup {msg_id}]
             ELSE /\ all_tasks' = all_tasks \o Tagged(parsed.tasks, msg_id)
                  /\ pc' = "mark"
                  /\ trace' = [trace EXCEPT
                        !.extract_calls = @ \cup {msg_id},
                        !.primary_tasks = @ \o Tagged(parsed.tasks, msg_id),
                        !.extract_failed = IF call.failed THEN @ \cup {msg_id}
                                           ELSE @]
                  /\ UNCHANGED emails_idx
    /\ UNCHANGED <<fvars, pvars, store, run, messages, idx, result, main_vars>>

\* a variant that marks only a message that gave candidates
MarkProcessedIfTasks ==
    /\ pc = "mark"
    /\ LET marks == /\ has_mark_email_processed
                    /\ \E n \in 1..Len(all_tasks) : all_tasks[n].src = msg_id
       IN /\ processed' = IF marks THEN processed \cup {msg_id} ELSE processed
          /\ trace' = [trace EXCEPT
                         !.marker_writes = IF marks THEN @ \cup {msg_id} ELSE @,
                         !.finished = @ \cup {msg_id},
                         !.extract_failed = IF marks THEN @ ELSE @ \ {msg_id}]
    /\ idx' = idx + 1
    /\ pc' = "loop"
    /\ UNCHANGED <<fvars, pvars, has_email_exists, has_mark_email_processed, db_tasks, run,
                   messages, emails_idx, all_tasks, result, main_vars>>

\* lines 158-159, the write succeeds (or the store has no such method)
MarkProcessed ==
    /\ pc = "mark"
    /\ processed' = IF has_mark_email_processed THEN processed \cup {msg_id}
                    ELSE processed
    /\ trace' = [trace EXCEPT
                   !.marker_writes = IF has_mark_email_processed
                                     THEN @ \cup {msg_id} ELSE @,
                   !.finished = @ \cup {msg_id},
                   !.extract_failed = IF has_mark_email_processed
                                      THEN @ ELSE @ \ {msg_id}]
    /\ idx' = idx + 1
    /\ pc' = "loop"
    /\ UNCHANGED <<fvars, pvars, has_email_exists, has_mark_email_processed, db_tasks, run,
                   messages, emails_idx, all_tasks, result, main_vars>>

\* lines 158-159, db.mark_email_processed raises
MarkFails ==
    /\ pc = "mark"
    /\ has_mark_email_processed
    /\ Fallback
    /\ trace' = [trace EXCEPT !.failed_write = "mark_email_processed",
                              !.extract_failed = @ \ {msg_id}]
    /\ UNCHANGED <<fvars, pvars, store, run, messages, idx, result, main_vars>>

\* lines 160-161
ReturnTasks ==
    /\ pc = "loop" /\ idx > Len(messages)
    /\ result' = [returned |-> TRUE, tasks |-> all_tasks, summary |-> "emails"]
    /\ pc' = "returned"
    /\ UNCHANGED <<fvars, pvars, store, run, messages, idx, emails_idx, all_tasks, main_vars, trace>>

\* lines 170-177: one placeholder email, with no filter before it
ExtractPlaceholder ==
    /\ pc = "fallback" /\ emails_idx <= PlaceholderCount
    /\ \E call \in ExtractCallsNow :
          LET parsed == call.parsed
          IN /\ trace' = [trace EXCEPT
                            !.extract_calls = @ \cup {Placeholder(emails_idx)}]
             /\ IF parsed.raised
                \* nothing catches it here: it leaves extract_email_tasks
                THEN /\ pc' = "failed"
                     /\ error' = "extract_email_tasks"
                     /\ UNCHANGED <<all_tasks, emails_idx>>
                ELSE /\ all_tasks' =
                          all_tasks \o Tagged(parsed.tasks, PlaceholderSrc)
                     /\ emails_idx' = emails_idx + 1
                     /\ UNCHANGED <<pc, error>>
    /\ UNCHANGED <<fvars, pvars, store, run, messages, idx, result, tasks, task_i, similar_tasks,
                   new_tasks, duplicate_tasks>>

\* lines 178-179
ReturnPlaceholderTasks ==
    /\ pc = "fallback" /\ emails_idx > PlaceholderCount
    /\ result' = [returned |-> TRUE, tasks |-> all_tasks, summary |-> "placeholder"]
    /\ pc' = "returned"
    /\ UNCHANGED <<fvars, pvars, store, run, messages, idx, emails_idx, all_tasks, main_vars, trace>>

\* lines 202-217 and 272-277: main takes the result
\* the locals of extract_email_tasks end with it, and so does its history
TakeResult ==
    /\ pc = "returned"
    /\ tasks' = [n \in 1..Len(result.tasks) |-> result.tasks[n].task]
    /\ task_i' = 1
    /\ pc' = IF result.tasks # <<>> THEN "main" ELSE "done"
    /\ messages' = <<>>
    /\ idx' = 0
    /\ emails_idx' = 0
    /\ all_tasks' = <<>>
    /\ result' = NoResult
    /\ trace' = [EmptyTrace EXCEPT !.failed_write = trace.failed_write,
                                   !.extract_failed = trace.extract_failed]
    /\ UNCHANGED <<fvars, pvars, store, run, similar_tasks, new_tasks, duplicate_tasks, error>>

cur_task == tasks[task_i]

\* lines 218-246: the candidate is a duplicate
RecordDuplicate ==
    /\ pc = "main" /\ task_i <= Len(tasks)
    /\ \E answer \in SimilarAnswers :
          /\ is_duplicate(answer, cur_task)
          /\ similar_tasks' = answer
    /\ duplicate_tasks' = Append(duplicate_tasks, task_i)
    /\ task_i' = task_i + 1
    /\ UNCHANGED <<fvars, pvars, store, run, pc, extract_vars, tasks, new_tasks, error, trace>>

\* lines 218-261: the candidate is new and db.add_task stores it
AddNewTask ==
    /\ pc = "main" /\ task_i <= Len(tasks)
    /\ \E answer \in SimilarAnswers :
          /\ ~is_duplicate(answer, cur_task)
          /\ similar_tasks' = answer
    /\ db_tasks' = db_tasks \cup {TaskRecord(cur_task)}
    /\ new_tasks' = Append(new_tasks, task_i)
    /\ trace' = [trace EXCEPT !.add_calls = Append(@, task_i)]
    /\ task_i' = task_i + 1
    /\ UNCHANGED <<fvars, pvars, has_email_exists, has_mark_email_processed, processed, run, pc,
                   extract_vars, tasks, duplicate_tasks, error>>

\* lines 218-255: the candidate is new and db.add_task raises
AddTaskFails ==
    /\ pc = "main" /\ task_i <= Len(tasks)
    /\ \E answer \in SimilarAnswers :
          /\ ~is_duplicate(answer, cur_task)
          /\ similar_tasks' = answer
    /\ trace' = [trace EXCEPT !.add_calls = Append(@, task_i),
                              !.failed_write = "add_task"]
    /\ error' = "add_task"
    /\ pc' = "failed"
    /\ UNCHANGED <<fvars, pvars, store, run, extract_vars, tasks, task_i, new_tasks, duplicate_tasks>>

\* lines 263-277
Finish ==
    /\ pc = "main" /\ task_i > Len(tasks)
    /\ pc' = "done"
    /\ UNCHANGED <<fvars, pvars, store, run, extract_vars, main_vars, trace>>

\* the operator starts the agent again
NextRun ==
    /\ pc \in {"done", "failed"}
    /\ run < MaxRuns
    /\ run' = run + 1
    /\ pc' = "start"
    /\ messages' = <<>>
    /\ idx' = 0
    /\ emails_idx' = 0
    /\ all_tasks' = <<>>
    /\ result' = NoResult
    /\ tasks' = <<>>
    /\ task_i' = 0
    /\ similar_tasks' = <<>>
    /\ new_tasks' = <<>>
    /\ duplicate_tasks' = <<>>
    /\ error' = ""
    /\ trace' = [EmptyTrace EXCEPT !.extract_failed = trace.extract_failed]
    /\ UNCHANGED <<fvars, pvars, store>>

RunIdle ==
    /\ has_email_exists = FALSE
    /\ has_mark_email_processed = FALSE
    /\ processed = {}
    /\ db_tasks = {}
    /\ run = 0
    /\ RunStart

extract_email_tasks ==
    \/ ListMessages \/ SourceUnavailable \/ SkipProcessed \/ MessageRaises
    \/ CheckPromotional \/ ExtractTasks \/ MarkProcessed \/ MarkFails
    \/ ReturnTasks \/ ExtractPlaceholder \/ ReturnPlaceholderTasks

main ==
    \/ TakeResult \/ RecordDuplicate \/ AddNewTask \/ AddTaskFails \/ Finish

Next == extract_email_tasks \/ main \/ NextRun

Init == RunInit /\ FilterIdle /\ ParserIdle

Spec == Init /\ [][Next]_vars

\* one call of extract_email_tasks on a store that earlier runs have marked
ExtractInit ==
    /\ has_email_exists \in BOOLEAN
    /\ has_mark_email_processed \in BOOLEAN
    /\ processed \in SUBSET MsgIds
    /\ db_tasks = {}
    /\ run = 1
    /\ RunStart
    /\ FilterIdle /\ ParserIdle

SpecExtract == ExtractInit /\ [][extract_email_tasks]_vars

\* the call is one sequential program: a step that can be taken is taken
FairSpecExtract == SpecExtract /\ WF_vars(extract_email_tasks)

\* one call of is_promotional_email, and one of parse_task_analysis
InitFilter == FilterInit /\ ParserIdle /\ RunIdle
InitParser == ParserInit /\ FilterIdle /\ RunIdle

SpecFilter == InitFilter /\ [][FilterCall]_vars
SpecParser == InitParser /\ [][ParserCall]_vars

(***************************************************************************)
(* Properties                                                              *)
(***************************************************************************)
InSeq(x, q) == \E n \in 1..Len(q) : q[n] = x
Count(x, q) == Cardinality({n \in 1..Len(q) : q[n] = x})
BatchIds == {messages[n] : n \in 1..Len(messages)}

\* C1: partial failure isolation.  When extract_email_tasks has returned,
\* every candidate extracted from a message of the batch is in the result
\* (a message that raised discards nothing extracted before it), and every
\* message of the batch other than the raising ones was processed or skipped
\* (a raise prevents no later message from being processed).
C1_PartialFailureIsolation ==
    result.returned =>
        /\ \A n \in 1..Len(trace.primary_tasks) :
              InSeq(trace.primary_tasks[n], result.tasks)
        /\ \A m \in BatchIds \ trace.raised :
              m \in trace.skipped \cup trace.promo_calls

\* a stored task with the candidate's normalized title, priority and deadline:
\* the candidate itself once inserted, or the task it duplicates
StoredLike(candidate) ==
    \E t \in db_tasks :
        /\ Lower(Strip(t.name)) = Lower(Strip(candidate.title))
        /\ t.priority = priority_of(candidate.priority)
        /\ Strip(t.due_date) = Strip(candidate.deadline)

\* C2: no partial-marker state.  In every state of a run, a message that
\* carries a processed-marker has each candidate extracted from it in the
\* task store already (inserted as new, or present as the task it
\* duplicates): the marker write never precedes the inserts.
C2_NoPartialMarker ==
    \A n \in 1..Len(trace.primary_tasks) :
        trace.primary_tasks[n].src \in processed
            => StoredLike(trace.primary_tasks[n].task)

\* the candidate main handled last: the one add_task raised for, or the one
\* before the loop counter (0 when none was handled yet)
LastHandled ==
    IF pc = "failed" /\ error = "add_task" THEN task_i
    ELSE IF pc \in {"main", "done"} /\ tasks # <<>> THEN task_i - 1
    ELSE 0

\* the condition of the claim on the matches find_similar_tasks returned
C3_IsDuplicate(candidate) ==
    \E n \in 1..Len(similar_tasks) :
        /\ similar_tasks[n].similarity_distance # <<>>
        /\ similar_tasks[n].similarity_distance[1] < DistanceThreshold
        /\ Lower(Strip(similar_tasks[n].name)) = Lower(Strip(candidate.title))
        /\ similar_tasks[n].priority
               = (CASE candidate.priority = "HIGH" -> 1
                    [] candidate.priority = "MEDIUM" -> 2
                    [] candidate.priority = "LOW" -> 3)
        /\ Strip(similar_tasks[n].due_date) = Strip(candidate.deadline)

\* C3: the deduplication decision and its effect.  The candidate main
\* handled last is recorded as duplicate, with no add_task call, exactly when
\* some returned match has a distance below 0.05 and the candidate's
\* normalized title, mapped priority and trimmed deadline; otherwise add_task
\* is called exactly once for it and it is recorded as new (when add_task
\* raises, the run ends there with that error).  Every candidate handled so
\* far is in exactly one of the two lists, once, and no other candidate is.
C3_DeduplicationDecision ==
    /\ LastHandled >= 1 =>
          LET k == LastHandled
              dup == C3_IsDuplicate(tasks[k])
          IN /\ dup <=> InSeq(k, duplicate_tasks)
             /\ dup => Count(k, trace.add_calls) = 0 /\ pc # "failed"
             /\ ~dup => /\ Count(k, trace.add_calls) = 1
                        /\ pc # "failed" => /\ InSeq(k, new_tasks)
                                            /\ TaskRecord(tasks[k]) \in db_tasks
    /\ pc \in {"main", "done"} =>
          \A k \in 1..Len(tasks) :
             Count(k, new_tasks) + Count(k, duplicate_tasks)
                 = (IF k < task_i THEN 1 ELSE 0)

\* a candidate recorded as duplicate after another was stored in the same run
C3_Witness ==
    /\ pc = "done"
    /\ new_tasks # <<>> /\ duplicate_tasks # <<>>
    /\ Len(similar_tasks) > 1

\* C4: the decision rule of the Relevance Filter.  is_promotional_email
\* returns True only when the oracle call did not raise and the cleaned
\* answer contains "YES" and not "NO"; it returns False when the cleaned
\* answer contains only "NO", both, neither, or when the call raised.
C4_FilterDecisionRule ==
    f_pc = "returned" =>
        LET cleaned == promo_cleaned(f_oracle.content)
            yes == Contains(cleaned, "YES")
            no == Contains(cleaned, "NO")
        IN /\ f_result = TRUE => ~f_oracle.fails /\ yes /\ ~no
           /\ f_oracle.fails => f_result = FALSE
           /\ ~f_oracle.fails /\ no /\ ~yes => f_result = FALSE
           /\ ~f_oracle.fails /\ no /\ yes => f_result = FALSE
           /\ ~f_oracle.fails /\ ~no /\ ~yes => f_result = FALSE
           /\ ~f_oracle.fails /\ yes /\ ~no => f_result = TRUE

\* an answer with a reasoning block that holds both words after cleaning
C4_Witness ==
    /\ f_pc = "returned"
    /\ ~f_oracle.fails
    /\ Contains(f_oracle.content, "<think>")
    /\ Contains(promo_cleaned(f_oracle.content), "YES")
    /\ Contains(promo_cleaned(f_oracle.content), "NO")
    /\ f_result = FALSE

\* C5: forward data flow.  analyze_emails_for_tasks is called on a mail, of
\* the fetched batch or of the placeholder batch, only after
\* is_promotional_email was called on it and returned False.
C5_FilterBeforeExtract == trace.extract_calls \subseteq trace.promo_kept

\* C6: the marker follows successful processing.  With the marker capability,
\* when extract_email_tasks has returned, every message whose iteration ran
\* to its end without raising (rejected as promotional, or extracted with or
\* without candidates) carries a processed-marker.
C6_MarkerAfterProcessing ==
    result.returned /\ has_mark_email_processed => trace.finished \subseteq processed

\* C7: a message the store reports as processed is skipped.  For every
\* skipped message: the store has email_exists and holds its marker, neither
\* the filter nor the extractor was called on it, no candidate of the run
\* comes from it and its marker was not written again.  The skip only moves
\* the loop on: every message before the current one was skipped or given
\* to the filter, and so was every message of a batch the loop has returned
\* from.
C7_SkipProcessed ==
    /\ \A m \in trace.skipped :
          /\ has_email_exists /\ m \in processed
          /\ m \notin trace.promo_calls \cup trace.extract_calls
          /\ m \notin trace.marker_writes
          /\ \A n \in 1..Len(all_tasks) : all_tasks[n].src # m
          /\ \A n \in 1..Len(result.tasks) : result.tasks[n].src # m
    /\ pc \in {"loop", "extract", "mark"} =>
          \A n \in 1..(idx - 1) :
             messages[n] \in trace.skipped \cup trace.promo_calls
    /\ result.returned /\ result.summary = "emails" =>
          BatchIds \subseteq trace.skipped \cup trace.promo_calls

\* a run that skipped a message and processed a later one
C7_Witness ==
    /\ result.returned /\ result.summary = "emails"
    /\ \E m \in trace.skipped : \E later \in trace.marker_writes : later > m

\* C8: persistence errors are propagated.  Once a store write of the run
\* (db.add_task, db.mark_email_processed) has raised, the run is the one that
\* ended with that error: it did not go on.
C8_PersistenceErrorsPropagate ==
    trace.failed_write # "" => pc = "failed" /\ error = trace.failed_write

Returned ==
    /\ pc = "returned"
    /\ result.returned
    /\ result.summary \in {"emails", "placeholder"}

\* C9: the run always completes with a summary.  Whatever the message source
\* and the oracle do, extract_email_tasks, once called, returns a task list
\* and a summary line, and no exception ever leaves it.
C9_RunCompletes ==
    /\ [](error # "extract_email_tasks")
    /\ (pc = "start") ~> Returned

\* a result obtained although the message after a skipped one raised
C9_Witness ==
    /\ Returned
    /\ result.summary = "placeholder"
    /\ trace.raised # {}
    /\ trace.skipped # {}

ValidJson(text) == \E v \in JsonValues : Dump(v) = text
TopLevelOf(text) == (CHOOSE v \in JsonValues : Dump(v) = text).ty

\* C10: the parser fails soft.  parse_task_analysis never raises and returns
\* a list of candidate tasks; the list is empty when the input is empty, when
\* it begins with "Error:", when the cleaned text is not valid JSON, and when
\* the parsed top-level value is neither a list nor a dict.
C10_ParserFailSoft ==
    p_pc = "returned" =>
        LET cleaned == parse_cleaned(p_input)
        IN /\ ~p_result.raised
           /\ \A n \in 1..Len(p_result.tasks) :
                 DOMAIN p_result.tasks[n]
                     = {"title", "from", "priority", "deadline", "reason"}
           /\ \/ p_input = ""
              \/ StartsWith(p_input, "Error:")
              \/ ~ValidJson(cleaned)
              \/ TopLevelOf(cleaned) \notin {"list", "dict"}
              => p_result.tasks = <<>>

\* a fenced answer whose text is not JSON
C10_Witness ==
    /\ p_pc = "returned"
    /\ Contains(p_input, Fence)
    /\ ~ValidJson(parse_cleaned(p_input))
    /\ p_result = [raised |-> FALSE, tasks |-> <<>>]

\* the raw entries the loop of parse_task_analysis runs over for a text
EntriesOf(text) ==
    iterate(unwrap(json_loads(parse_cleaned(text)).value).tasks).elems

\* the text is taken by the loop: not empty, no sentinel, valid JSON
Parsed(text) ==
    /\ text # "" /\ ~StartsWith(text, "Error:")
    /\ ValidJson(parse_cleaned(text))

\* C11: per-entry failure isolation in the parser.  When the answer parses
\* to a list of raw entries, every entry that is valid by itself (cleaning
\* it neither raises nor rejects it) is returned as a candidate, whatever
\* happens to the other entries of the list, before or after it.
C11_PerEntryIsolation ==
    p_pc = "returned" /\ Parsed(p_input)
                      /\ TopLevelOf(parse_cleaned(p_input)) = "list" =>
        \A n \in 1..Len(EntriesOf(p_input)) :
            LET e == clean_entry(EntriesOf(p_input)[n])
            IN e.exc = "" /\ ~e.skip => InSeq(e.task, p_result.tasks)

StrKey(e, k) == HasKey(e, k) /\ Get(e, k, JNull).ty = "str"
ValidPriority(e) ==
    /\ StrKey(e, "priority")
    /\ Upper(Strip(Get(e, "priority", JNull).s)) \in {"HIGH", "MEDIUM", "LOW"}

\* the raw entry e is one that the candidate t can come from
C12_From(e, t) ==
    /\ e.ty = "dict" /\ StrKey(e, "title")
    /\ LET trimmed == Strip(Get(e, "title", JNull).s)
       IN /\ Len(trimmed) > 3
          /\ Len(t.title) <= Len(trimmed)
          /\ t.title = SubSeq(trimmed, 1, Len(t.title))
          /\ (Len(t.title) = 50 \/ t.title = trimmed)
    /\ ~(HasKey(e, "from") \/ HasKey(e, "sender") \/ HasKey(e, "email"))
          => t.from = "Unknown"
    /\ IF ValidPriority(e)
       THEN t.priority = Upper(Strip(Get(e, "priority", JNull).s))
       ELSE t.priority = "MEDIUM"
    /\ ~HasKey(e, "deadline") => t.deadline = "None"

\* C12: the schema of a candidate.  Every element of a list that
\* parse_task_analysis returns has a title of 4 to 50 characters, a 'from'
\* of at most 30, a priority among HIGH, MEDIUM, LOW, a deadline of at most
\* 20 and a reason of at most 100 characters, and comes from a raw entry
\* whose trimmed title has more than 3 characters: its title is that title
\* cut at 50, its 'from' is "Unknown" when the entry has no sender key, its
\* priority is MEDIUM when the entry's is absent or invalid, its deadline is
\* "None" when the entry has none.
C12_CandidateSchema ==
    p_pc = "returned" =>
        \A n \in 1..Len(p_result.tasks) :
            LET t == p_result.tasks[n]
            IN /\ Len(t.title) >= 4 /\ Len(t.title) <= 50
               /\ Len(t.from) <= 30
               /\ t.priority \in {"HIGH", "MEDIUM", "LOW"}
               /\ Len(t.deadline) <= 20
               /\ Len(t.reason) <= 100
               /\ \E k \in 1..Len(EntriesOf(p_input)) :
                     C12_From(EntriesOf(p_input)[k], t)

\* an answer with the over-long entry, returned cut to the caps
C12_Witness ==
    /\ p_pc = "returned"
    /\ \E n \in 1..Len(p_result.tasks) :
          /\ Len(p_result.tasks[n].title) = 50
          /\ Len(p_result.tasks[n].from) = 30
          /\ Len(p_result.tasks[n].reason) = 100
          /\ p_result.tasks[n].priority = "MEDIUM"
          /\ p_result.tasks[n].deadline # "None"
    /\ \E n \in 1..Len(p_result.tasks) :
          /\ p_result.tasks[n].from = "Unknown"
          /\ p_result.tasks[n].deadline = "None"

\* the messages of the batch that passed the filter and whose iteration ended
Completed == trace.finished \cap trace.promo_kept

\* C13 as stated, with no condition on the store: every message that
\* passed the filter and whose iteration finished carries a marker, and no
\* marked message is given to the filter or to the extractor by a later run.
C13_AsStated ==
    /\ Completed \subseteq processed
    /\ \A m \in processed \ trace.marker_writes :
          m \notin trace.promo_calls \cup trace.extract_calls

\* C13: in the primary path, with a store that has mark_email_processed, a
\* message that passed the filter carries a marker once its iteration has
\* finished, also when its extraction failed (sentinel) or gave a text that
\* is no JSON: no outcome of the extraction raises, so the iteration of
\* every message given to the extractor goes on to the marker write and
\* finishes unless that write raises.  Markers are never removed, and with
\* a store that has email_exists a message marked before this run is given
\* neither to the filter nor to the extractor again.
C13_MarkedWhenFinished ==
    /\ [](has_mark_email_processed => Completed \subseteq processed)
    /\ [](\A m \in trace.extract_calls \cap MsgIds :
             \/ pc = "mark" /\ msg_id = m
             \/ m \in trace.finished
             \/ trace.failed_write = "mark_email_processed")
    /\ [](pc # "mark" => trace.extract_failed \subseteq processed)
    /\ [][processed \subseteq processed']_vars
    /\ [](has_email_exists =>
             \A m \in processed \ trace.marker_writes :
                m \notin trace.promo_calls \cup trace.extract_calls)

\* a later run skips a message whose extraction failed in an earlier run
C13_Witness ==
    /\ run > 1
    /\ \E m \in trace.skipped : m \in trace.extract_failed /\ m \in processed

====
